---- MODULE Spec2Model ----
(***************************************************************************)
(* NRCLex (src/src/nrclex/nrclex.py): an analyzer object that matches a    *)
(* token sequence against a word -> emotion-list lexicon and aggregates    *)
(* the matched emotions into counts, frequencies and the top emotions.     *)
(*                                                                         *)
(* Representation                                                          *)
(*   - a Python list is a sequence;                                        *)
(*   - the dicts built by the analyzer (affect_dict, the Counter, the      *)
(*     frequency dict) keep insertion order, so each is a sequence of      *)
(*     <<key, value>> pairs with distinct keys;                            *)
(*   - the lexicon is only probed for membership and looked up, so it is   *)
(*     a function whose DOMAIN is its key set;                             *)
(*   - a JSON value of the lexicon is a record: kind "list" with its       *)
(*     items, or kind "number" (a malformed, non-iterable value);          *)
(*   - float(c) / float(s) is the fraction c/s in lowest terms, a pair     *)
(*     <<numerator, denominator>>: for the small integers of the model     *)
(*     two quotients are the same float exactly when they are the same     *)
(*     fraction, and they compare as the fractions do.                     *)
(***************************************************************************)
EXTENDS Integers, Sequences, FiniteSets

VARIABLES lexicon, words, affect_list, affect_dict, raw_emotion_scores,
          affect_frequencies, outcome, returned, snap

derived == <<affect_list, affect_dict, raw_emotion_scores, affect_frequencies>>
self == <<lexicon, words, affect_list, affect_dict, raw_emotion_scores,
          affect_frequencies>>
vars == <<lexicon, words, affect_list, affect_dict, raw_emotion_scores,
          affect_frequencies, outcome, returned, snap>>

(***************************************************************************)
(* Bounds and input sets                                                   *)
(***************************************************************************)
\* longest token list handed to load_token_list
MaxTokens == 2
\* longest emotion list of one lexicon word
MaxEmotions == 2
\* longest token list in the specification that also reloads the lexicon
MaxTokensLex == 1

Words == {"happy", "sad"}
Emotions == {"joy", "negative"}

SeqsUpTo(S, n) == UNION {[1..k -> S] : k \in 0..n}

TokenLists == SeqsUpTo(Words, MaxTokens)
ShortTokenLists == SeqsUpTo(Words, MaxTokensLex)

JsonList(items) == [kind |-> "list", items |-> items]
JsonNumber == [kind |-> "number", items |-> <<>>]
JsonValues == {JsonList(s) : s \in SeqsUpTo(Emotions, MaxEmotions)} \cup {JsonNumber}

Lexicons == UNION {[K -> JsonValues] : K \in SUBSET Words}

\* the lexicons of the files offered to load_lexicon
FileValues ==
    {JsonList(<<>>), JsonList(<<"joy">>), JsonList(<<"joy", "negative">>),
     JsonNumber}
FileLexicons == UNION {[K -> FileValues] : K \in SUBSET Words}

\* what open(path) / json.load find: no file, a file that is not JSON, or a
\* JSON object
LexiconFiles ==
    {[state |-> "missing", json |-> <<>>], [state |-> "invalid", json |-> <<>>]}
    \cup {[state |-> "object", json |-> l] : l \in FileLexicons}

(***************************************************************************)
(* Ordered dicts                                                           *)
(***************************************************************************)
DictKeys(d) == {d[i][1] : i \in DOMAIN d}

DictIndex(d, k) == CHOOSE i \in DOMAIN d : d[i][1] = k

DictGet(d, k) == d[DictIndex(d, k)][2]

DictSet(d, k, v) ==
    IF k \in DictKeys(d)
    THEN [d EXCEPT ![DictIndex(d, k)] = <<k, v>>]
    ELSE Append(d, <<k, v>>)

(***************************************************************************)
(* Floats                                                                  *)
(***************************************************************************)
RECURSIVE Gcd(_, _)
Gcd(a, b) == IF b = 0 THEN a ELSE Gcd(b, a % b)

\* float(c) / float(s), s # 0
FloatDiv(c, s) == <<c \div Gcd(c, s), s \div Gcd(c, s)>>

\* x < y on floats
FloatLess(x, y) == x[1] * y[2] < y[1] * x[2]

(***************************************************************************)
(* build_word_affect                                                       *)
(***************************************************************************)
\* (mutant) the list of the previous run is extended, not a new one
KeptList == affect_list

\* (mutant) the Counter of the previous run is counted on, not a new one
KeptCounter == raw_emotion_scores

\* affect_list = list(); affect_dict = dict(); affect_frequencies = Counter():
\* the fresh accumulators of one run
NewList == <<>>
NewDict == <<>>
NewCounter == <<>>

\* (mutant) only the emotions not yet in the list are added
RECURSIVE AddUnseen(_, _)
AddUnseen(al, items) ==
    IF items = <<>> THEN al
    ELSE AddUnseen(IF \E i \in DOMAIN al : al[i] = Head(items) THEN al
                   ELSE Append(al, Head(items)),
                   Tail(items))
ExtendUnique(al, v) == AddUnseen(al, v.items)

\* affect_list.extend(self.lexicon[word])
ExtendList(al, v) == al \o v.items

\* (mutant) a word without emotions is not recorded
UpdateDictNonEmpty(ad, word, v) ==
    IF v.items = <<>> THEN ad ELSE DictSet(ad, word, v)

\* affect_dict.update({word: self.lexicon[word]})
UpdateDict(ad, word, v) == DictSet(ad, word, v)

\* for word in self.words: if word in lexicon_keys: ...
\* list.extend raises TypeError on a value that is not iterable
RECURSIVE MatchLoop(_, _, _, _)
MatchLoop(lex, ws, al, ad) ==
    IF ws = <<>> THEN [err |-> "none", affect_list |-> al, affect_dict |-> ad]
    ELSE LET word == Head(ws) IN
         IF word \in DOMAIN lex
         THEN IF lex[word].kind # "list"
              THEN [err |-> "TypeError", affect_list |-> al, affect_dict |-> ad]
              ELSE MatchLoop(lex, Tail(ws), ExtendList(al, lex[word]),
                             UpdateDict(ad, word, lex[word]))
         ELSE MatchLoop(lex, Tail(ws), al, ad)

\* (mutant) = 1 for += 1
SetToOne(counter, word) == DictSet(counter, word, 1)

\* affect_frequencies[word] += 1 on a Counter: a missing key counts as 0
Increment(counter, word) ==
    DictSet(counter, word,
            (IF word \in DictKeys(counter) THEN DictGet(counter, word) ELSE 0) + 1)

\* for word in affect_list: affect_frequencies[word] += 1
RECURSIVE CountLoop(_, _)
CountLoop(al, counter) ==
    IF al = <<>> THEN counter
    ELSE CountLoop(Tail(al), Increment(counter, Head(al)))

\* sum(affect_frequencies.values())
RECURSIVE SumValues(_)
SumValues(counter) ==
    IF counter = <<>> THEN 0 ELSE Head(counter)[2] + SumValues(Tail(counter))

\* (mutant) the reciprocal of the total is taken before the keys are visited
PercentEager(counter, sum_values, acc) ==
    IF sum_values = 0 THEN [err |-> "ZeroDivisionError", affect_percent |-> acc]
    ELSE [err |-> "none",
          affect_percent |-> [i \in DOMAIN counter |->
                                 <<counter[i][1], FloatDiv(counter[i][2], sum_values)>>]]

\* {key: float(affect_frequencies[key]) / float(sum_values) for key in ...keys()}
\* the division is evaluated once per key, and raises when sum_values is 0
RECURSIVE PercentLoop(_, _, _)
PercentLoop(counter, sum_values, acc) ==
    IF counter = <<>> THEN [err |-> "none", affect_percent |-> acc]
    ELSE IF sum_values = 0
         THEN [err |-> "ZeroDivisionError", affect_percent |-> acc]
         ELSE PercentLoop(Tail(counter), sum_values,
                          DictSet(acc, Head(counter)[1],
                                  FloatDiv(Head(counter)[2], sum_values)))

\* The whole of build_word_affect on self.lexicon and self.words: the four
\* results are locals until the four assignments at the end, which no error
\* reaches.
BuildResult(err, al, ad, counter, percent) ==
    [err |-> err, affect_list |-> al, affect_dict |-> ad,
     raw_emotion_scores |-> counter, affect_frequencies |-> percent]

build_word_affect(lex, ws) ==
    LET m == MatchLoop(lex, ws, NewList, NewDict) IN
    IF m.err # "none" THEN BuildResult(m.err, <<>>, <<>>, <<>>, <<>>)
    ELSE LET counter == CountLoop(m.affect_list, NewCounter)
             sum_values == SumValues(counter)
             p == PercentLoop(counter, sum_values, <<>>)
         IN IF p.err # "none" THEN BuildResult(p.err, <<>>, <<>>, <<>>, <<>>)
            ELSE BuildResult("none", m.affect_list, m.affect_dict, counter,
                             p.affect_percent)

(***************************************************************************)
(* top_emotions                                                            *)
(***************************************************************************)
\* max(self.affect_frequencies.values()), on a non-empty dict
RECURSIVE MaxValue(_)
MaxValue(d) ==
    IF Len(d) = 1 THEN d[1][2]
    ELSE LET rest == MaxValue(Tail(d)) IN
         IF FloatLess(d[1][2], rest) THEN rest ELSE d[1][2]

\* for key in ...keys(): if self.affect_frequencies[key] == max_value: append
RECURSIVE TopLoop(_, _, _)
TopLoop(d, max_value, acc) ==
    IF d = <<>> THEN acc
    ELSE TopLoop(Tail(d), max_value,
                 IF d[1][2] = max_value THEN Append(acc, <<d[1][1], max_value>>)
                 ELSE acc)

\* the property's value; max() of an empty sequence raises ValueError
TopEmotions(freq) ==
    IF freq = <<>> THEN [err |-> "ValueError", value |-> <<>>]
    ELSE [err |-> "none", value |-> TopLoop(freq, MaxValue(freq), <<>>)]

(***************************************************************************)
(* State and operations                                                    *)
(***************************************************************************)
Done(op, err) == [op |-> op, err |-> err]

NoSnap == [taken |-> FALSE, other |-> FALSE, words |-> <<>>, derived |-> <<>>,
           top |-> <<>>]

\* __init__: the lexicon is loaded, then every other field is an empty list
\* or dict.  A constructor that raises leaves no object.
Constructed(lexicons) ==
    /\ lexicon \in lexicons
    /\ words = <<>>
    /\ affect_list = <<>>
    /\ affect_dict = <<>>
    /\ raw_emotion_scores = <<>>
    /\ affect_frequencies = <<>>
    /\ outcome = Done("init", "none")
    /\ returned = <<>>
    /\ snap = NoSnap

Init == Constructed(Lexicons)

InitLexicon == Constructed(FileLexicons)

\* self.words = token_list; self.build_word_affect()
Load(op, token_list) ==
    /\ words' = token_list
    /\ LET r == build_word_affect(lexicon, token_list) IN
       /\ outcome' = Done(op, r.err)
       /\ IF r.err = "none"
          THEN /\ affect_list' = r.affect_list
               /\ affect_dict' = r.affect_dict
               /\ raw_emotion_scores' = r.raw_emotion_scores
               /\ affect_frequencies' = r.affect_frequencies
          ELSE UNCHANGED derived
    /\ UNCHANGED <<lexicon, returned>>

load_token_list(token_list) == Load("load_token_list", token_list)

\* TextBlob(text).words lemmatized: the tokenizer is an external library, its
\* result is any token list
load_raw_text(lemmas) == Load("load_raw_text", lemmas)

\* (mutant) the derived state is rebuilt from the new lexicon
load_lexicon_rebuild(file) ==
    /\ file.state = "object"
    /\ lexicon' = file.json
    /\ outcome' = Done("load_lexicon", "none")
    /\ LET r == build_word_affect(file.json, words) IN
       /\ affect_list' = r.affect_list
       /\ affect_dict' = r.affect_dict
       /\ raw_emotion_scores' = r.raw_emotion_scores
       /\ affect_frequencies' = r.affect_frequencies
    /\ UNCHANGED <<words, returned>>

\* with open(path) as json_file: self.lexicon = json.load(json_file)
load_lexicon(file) ==
    /\ IF file.state = "object"
       THEN lexicon' = file.json /\ outcome' = Done("load_lexicon", "none")
       ELSE /\ UNCHANGED lexicon
            /\ outcome' = Done("load_lexicon",
                               IF file.state = "missing" THEN "FileNotFoundError"
                               ELSE "JSONDecodeError")
    /\ UNCHANGED <<words, derived, returned>>

\* a read of the top_emotions property; `returned` is the caller's copy of
\* the last value a read returned
top_emotions ==
    /\ LET t == TopEmotions(affect_frequencies) IN
       /\ outcome' = Done("top_emotions", t.err)
       /\ returned' = IF t.err = "none" THEN t.value ELSE returned
    /\ UNCHANGED self

\* the caller keeps the derived state of one successful load
Snapshot ==
    /\ ~snap.taken
    /\ outcome.op = "load_token_list" /\ outcome.err = "none"
    /\ snap' = [taken |-> TRUE, other |-> FALSE, words |-> words,
                derived |-> derived, top |-> TopEmotions(affect_frequencies)]
    /\ UNCHANGED <<self, outcome, returned>>

\* whether a different token list has been loaded since the snapshot
Track(token_list) ==
    IF snap.taken /\ token_list # snap.words /\ outcome'.err = "none"
    THEN [snap EXCEPT !.other = TRUE]
    ELSE snap

(***************************************************************************)
(* Specifications                                                          *)
(***************************************************************************)
\* An analyzer that keeps the lexicon it was constructed with and is fed
\* token lists.
Next ==
    \/ \E t \in TokenLists : load_token_list(t) /\ UNCHANGED snap
    \/ top_emotions /\ UNCHANGED snap

Spec == Init /\ [][Next]_vars

\* The same analyzer, constructed from one of the lexicon files, with a caller
\* that remembers the result of one load.
NextReload ==
    \/ \E t \in TokenLists : load_token_list(t) /\ snap' = Track(t)
    \/ Snapshot

SpecReload == InitLexicon /\ [][NextReload]_vars

\* Every operation of the class, the lexicon reloaded at will, on token
\* lists of at most MaxTokensLex tokens.
NextLexicon ==
    \/ \E f \in LexiconFiles : load_lexicon(f) /\ UNCHANGED snap
    \/ \E t \in ShortTokenLists : load_token_list(t) /\ UNCHANGED snap
    \/ \E t \in ShortTokenLists : load_raw_text(t) /\ UNCHANGED snap
    \/ top_emotions /\ UNCHANGED snap

SpecLexicon == InitLexicon /\ [][NextLexicon]_vars

(***************************************************************************)
(* Vocabulary of the properties                                            *)
(***************************************************************************)
LoadOps == {"load_token_list", "load_raw_text"}
\* the last operation was a load / a load that returned normally
LoadAttempted == outcome.op \in LoadOps
LoadCompleted == LoadAttempted /\ outcome.err = "none"

Tokens == {words[i] : i \in DOMAIN words}
\* the tokens of words that are lexicon keys
MatchedTokens == Tokens \cap DOMAIN lexicon
NoMatch == MatchedTokens = {}

\* what token i contributes to the matched-emotion list
EmotionsOf(i) ==
    IF words[i] \in DOMAIN lexicon THEN lexicon[words[i]].items ELSE <<>>

\* the number of emotions contributed by the tokens before position i
RECURSIVE Offset(_)
Offset(i) == IF i = 1 THEN 0 ELSE Offset(i - 1) + Len(EmotionsOf(i - 1))

Occurrences(e) == Cardinality({i \in DOMAIN affect_list : affect_list[i] = e})

\* the sum of the frequencies, in units of 1/total
RECURSIVE SumFrequencies(_, _)
SumFrequencies(freq, total) ==
    IF freq = <<>> THEN 0
    ELSE Head(freq)[2][1] * (total \div Head(freq)[2][2])
         + SumFrequencies(Tail(freq), total)

\* f is the largest frequency of freq
IsMaximum(f, freq) ==
    /\ \E i \in DOMAIN freq : freq[i][2] = f
    /\ \A i \in DOMAIN freq : ~FloatLess(f, freq[i][2])

\* top is exactly the emotions of freq at the maximum, each paired with it
ExactlyTheMaxima(top, freq) ==
    \E f \in {freq[i][2] : i \in DOMAIN freq} :
        /\ IsMaximum(f, freq)
        /\ \A i \in DOMAIN top : top[i][2] = f /\ top[i][1] \in DictKeys(freq)
                                 /\ DictGet(freq, top[i][1]) = f
        /\ \A i \in DOMAIN freq : freq[i][2] = f => freq[i][1] \in DictKeys(top)
        /\ Cardinality(DictKeys(top)) = Len(top)

(***************************************************************************)
(* C1                                                                      *)
(***************************************************************************)
\* C1: after a load, affect_list is the concatenation, in token order, of
\* the lexicon's emotion list of every token that is a lexicon key, once per
\* occurrence of the token and in the list's own order; its length is the
\* sum of the lengths of those lists.
C1_MatchedEmotions ==
    LoadCompleted =>
        /\ Len(affect_list) = Offset(Len(words) + 1)
        /\ \A i \in DOMAIN words : \A k \in DOMAIN EmotionsOf(i) :
               affect_list[Offset(i) + k] = EmotionsOf(i)[k]

\* a matched token loaded twice, its two different emotions kept in order
C1_Witness ==
    /\ LoadCompleted
    /\ Len(words) = 2 /\ words[1] = words[2]
    /\ Len(EmotionsOf(1)) = 2 /\ EmotionsOf(1)[1] # EmotionsOf(1)[2]
    /\ Len(affect_list) = 4

(***************************************************************************)
(* C2                                                                      *)
(***************************************************************************)
\* C2 as stated: a load in which no token is a lexicon key fails with a
\* division by zero.
C2_DividesByZero ==
    (LoadAttempted /\ NoMatch) => outcome.err = "ZeroDivisionError"

\* C2, amended: a load in which no token is a lexicon key (the empty list
\* included) returns normally: the matched-emotion list is empty, the total
\* is zero and, no emotion being there to divide for, affect_frequencies is
\* empty.
C2_NoMatchLoads ==
    (LoadAttempted /\ NoMatch) =>
        /\ outcome.err = "none"
        /\ affect_list = <<>>
        /\ SumValues(raw_emotion_scores) = 0
        /\ affect_frequencies = <<>>

\* a load of tokens none of which is a lexicon key has returned
C2_Witness ==
    /\ LoadCompleted /\ NoMatch /\ words # <<>>
    /\ affect_frequencies = <<>>

(***************************************************************************)
(* C3                                                                      *)
(***************************************************************************)
\* C3: after a load with at least one matching token, top_emotions is
\* exactly the emotions at the maximum frequency, each paired with it.
C3_TopEmotions ==
    (LoadCompleted /\ ~NoMatch) =>
        /\ TopEmotions(affect_frequencies).err = "none"
        /\ ExactlyTheMaxima(TopEmotions(affect_frequencies).value,
                            affect_frequencies)

\* What holds of the code: a read of top_emotions that returns, returns
\* exactly the emotions at the maximum frequency.
TopEmotionsWhenReturned ==
    (outcome.op = "top_emotions" /\ outcome.err = "none") =>
        ExactlyTheMaxima(returned, affect_frequencies)

(***************************************************************************)
(* C4                                                                      *)
(***************************************************************************)
\* C4: a load that raises leaves words and the derived state as they were
\* before the call.
C4_AllOrNothing ==
    [][(outcome'.op \in LoadOps /\ outcome'.err # "none")
          => (words' = words /\ derived' = derived)]_vars

(***************************************************************************)
(* C5                                                                      *)
(***************************************************************************)
\* C5: a load of the token list of an earlier load leaves the derived state
\* and top_emotions as that earlier load left them, whatever was loaded in
\* between.
C5_Reload ==
    (outcome.op = "load_token_list" /\ outcome.err = "none"
     /\ snap.taken /\ snap.words = words) =>
        /\ derived = snap.derived
        /\ TopEmotions(affect_frequencies) = snap.top

\* A loaded and remembered, another list loaded, A loaded again
C5_Witness ==
    /\ outcome.op = "load_token_list" /\ outcome.err = "none"
    /\ snap.taken /\ snap.words = words /\ snap.other
    /\ affect_list # <<>>

(***************************************************************************)
(* C6                                                                      *)
(***************************************************************************)
\* C6: after a load that matched at least one emotion, raw_emotion_scores
\* counts the occurrences of each emotion of affect_list, the counts sum to
\* the total, affect_frequencies has the same keys and maps each to
\* count/total, and the frequencies sum to 1.
C6_Frequencies ==
    (LoadCompleted /\ affect_list # <<>>) =>
        LET total == Len(affect_list) IN
        /\ DictKeys(raw_emotion_scores) = {affect_list[i] : i \in DOMAIN affect_list}
        /\ Cardinality(DictKeys(raw_emotion_scores)) = Len(raw_emotion_scores)
        /\ \A i \in DOMAIN raw_emotion_scores :
               /\ raw_emotion_scores[i][2] = Occurrences(raw_emotion_scores[i][1])
               /\ raw_emotion_scores[i][2] >= 1
        /\ SumValues(raw_emotion_scores) = total
        /\ Len(affect_frequencies) = Len(raw_emotion_scores)
        /\ \A i \in DOMAIN affect_frequencies :
               /\ affect_frequencies[i][1] = raw_emotion_scores[i][1]
               /\ affect_frequencies[i][2][2] > 0
               /\ total % affect_frequencies[i][2][2] = 0
               /\ affect_frequencies[i][2][1] * total
                      = raw_emotion_scores[i][2] * affect_frequencies[i][2][2]
        /\ SumFrequencies(affect_frequencies, total) = total

\* two emotions with different counts
C6_Witness ==
    /\ LoadCompleted
    /\ Len(raw_emotion_scores) = 2
    /\ raw_emotion_scores[1][2] # raw_emotion_scores[2][2]

(***************************************************************************)
(* C7                                                                      *)
(***************************************************************************)
\* C7: after a load has completed, top_emotions can be read without error,
\* whatever was loaded.
C7_TopEmotionsReadable ==
    LoadCompleted => TopEmotions(affect_frequencies).err = "none"

(***************************************************************************)
(* C8                                                                      *)
(***************************************************************************)
\* C8: a load in which no token is a lexicon key (the empty list included)
\* leaves affect_list, affect_dict and raw_emotion_scores empty, whatever an
\* earlier load had left there.
C8_NoMatchEmpties ==
    (LoadAttempted /\ NoMatch) =>
        /\ affect_list = <<>>
        /\ affect_dict = <<>>
        /\ raw_emotion_scores = <<>>

\* top_emotions had returned emotions after an earlier load: the derived
\* state was not empty then
C8_Witness ==
    /\ LoadCompleted /\ NoMatch
    /\ returned # <<>>
    /\ affect_list = <<>> /\ affect_dict = <<>> /\ raw_emotion_scores = <<>>

(***************************************************************************)
(* C9                                                                      *)
(***************************************************************************)
\* C9: after a load, affect_dict is the lexicon restricted to the distinct
\* tokens that are lexicon keys.
C9_MatchedMap ==
    LoadCompleted =>
        /\ DictKeys(affect_dict) = MatchedTokens
        /\ Cardinality(DictKeys(affect_dict)) = Len(affect_dict)
        /\ \A i \in DOMAIN affect_dict :
               affect_dict[i][2] = lexicon[affect_dict[i][1]]

\* two tokens, one entry: a repeated word, or a word the lexicon lacks
C9_Witness ==
    /\ LoadCompleted
    /\ Len(words) = 2 /\ Len(affect_dict) = 1

(***************************************************************************)
(* C10                                                                     *)
(***************************************************************************)
\* C10: load_lexicon changes nothing but the lexicon, and not even the
\* lexicon when it fails: words and the derived state stay, not recomputed.
C10_LexiconOnly ==
    [][outcome'.op = "load_lexicon"
          => /\ words' = words
             /\ derived' = derived
             /\ (outcome'.err # "none" => lexicon' = lexicon)]_vars

\* a new lexicon is in place and affect_dict still holds a word it lacks
C10_Witness ==
    /\ outcome.op = "load_lexicon" /\ outcome.err = "none"
    /\ \E w \in DictKeys(affect_dict) : w \notin DOMAIN lexicon
====
